---------------------------- MODULE Spec2Model ----------------------------
(***************************************************************************)
(* Model of the discovery-transcript analyzer: the Application Shell       *)
(* (App: transcript, isAnalyzing, result, error and handleAnalyze), the    *)
(* Analysis Client (analyzeTranscript: one generateContent call whose      *)
(* response text is handed to JSON.parse), the schema ARCHITECT_SCHEMA     *)
(* with the AnalysisResult interface, and the Report Renderer (the JSX of  *)
(* App's output section and the Mermaid component).                        *)
(*                                                                         *)
(* JavaScript values are tagged records, so that null, strings, numbers,   *)
(* arrays and objects can be compared with one another.  Text that is      *)
(* parsed as JSON is a sequence of lexical tokens.  A transcript is a      *)
(* sequence of characters.                                                 *)
(***************************************************************************)
EXTENDS Integers, Sequences, FiniteSets, TLC

VARIABLES
    transcript,     \* App state: the textarea's text
    isAnalyzing,    \* App state: the in-progress flag
    result,         \* App state: null or the value stored by setResult
    error,          \* App state: null or the message stored by setError
    issued,         \* the number of generateContent calls made so far
    pending,        \* the calls in flight: call number -> its request, with the
                    \* shell state at the moment the action was triggered
    last,           \* the handler that ran last, with the state it started from
    done,           \* the call that settled last and the one that settled before it
                    \* (of which the transcript is not kept)
    mermaid         \* the two Mermaid components: what their effect has done
                    \* with the chart they show

vars == <<transcript, isAnalyzing, result, error, issued, pending, last, done,
          mermaid>>

---------------------------------------------------------------------------
(* Bounds of the model. *)

\* The most outbound calls one behaviour issues.
MaxCalls == 2

---------------------------------------------------------------------------
(* JavaScript values. *)

JNull == [kind |-> "null"]

JStr(s) == [kind |-> "string", str |-> s]

\* A number, held in thousandths (0.83 is 830).
JNum(n) == [kind |-> "number", num |-> n]

JBool(b) == [kind |-> "boolean", bool |-> b]

JArr(items) == [kind |-> "array", items |-> items]

JObj(members) == [kind |-> "object", members |-> members]

\* The empty object {}.
EmptyObject == JObj(<<>>)

Range(s) == {s[i] : i \in DOMAIN s}

---------------------------------------------------------------------------
(* ARCHITECT_SCHEMA, node by node. *)

SString == [type |-> "STRING"]

SNumber == [type |-> "NUMBER"]

SArray(items) == [type |-> "ARRAY", items |-> items]

SObject(properties, required) ==
    [type |-> "OBJECT", properties |-> properties, required |-> required]

ClientSnapshotSchema ==
    SObject([organization_type |-> SString,
             technical_maturity_level |-> SString,
             top_priorities |-> SArray(SString),
             constraints |-> SArray(SString),
             risk_factors |-> SArray(SString),
             detected_pains |-> SArray(SString),
             detected_goals |-> SArray(SString)],
            <<"organization_type", "technical_maturity_level", "top_priorities",
              "constraints", "risk_factors", "detected_pains", "detected_goals">>)

RecommendationSchema ==
    SObject([solution_name |-> SString,
             architecture_layer |-> SString,
             business_value |-> SString,
             technical_reason |-> SString,
             transcript_reference |-> SString,
             confidence_score |-> SNumber,
             pricing_model |-> SString,
             estimated_monthly_cost |-> SString,
             cost_breakdown |-> SArray(SString),
             why_it_fits |-> SString,
             complementary_solutions |-> SArray(SString)],
            <<"solution_name", "architecture_layer", "business_value",
              "technical_reason", "transcript_reference", "confidence_score",
              "pricing_model", "estimated_monthly_cost", "cost_breakdown",
              "why_it_fits", "complementary_solutions">>)

UseCaseSchema ==
    SObject([scenario_name |-> SString,
             format |-> SString,
             situation |-> SString,
             problem_or_task |-> SString,
             action |-> SString,
             result |-> SString,
             industry_relevance |-> SString],
            <<"scenario_name", "format", "situation", "problem_or_task",
              "action", "result", "industry_relevance">>)

DiagramsSchema ==
    SObject([use_case_diagram |-> SString,
             tech_architecture_diagram |-> SString],
            <<"use_case_diagram", "tech_architecture_diagram">>)

PilotSchema ==
    SObject([name |-> SString,
             why_this_pilot |-> SString,
             high_level_architecture |-> SArray(SString),
             measurable_success_metrics |-> SArray(SString)],
            <<"name", "why_this_pilot", "high_level_architecture",
              "measurable_success_metrics">>)

PhaseSchema ==
    SObject([phase_name |-> SString,
             focus |-> SString,
             expected_outcome |-> SString],
            <<"phase_name", "focus", "expected_outcome">>)

\* A next_steps that leaves validation_questions optional.
NextStepsSchema_OptionalQuestions ==
    SObject([demo_direction |-> SString,
             follow_up_focus |-> SString,
             validation_questions |-> SArray(SString)],
            <<"demo_direction", "follow_up_focus">>)

NextStepsSchema ==
    SObject([demo_direction |-> SString,
             follow_up_focus |-> SString,
             validation_questions |-> SArray(SString)],
            <<"demo_direction", "follow_up_focus", "validation_questions">>)

ARCHITECT_SCHEMA ==
    SObject([client_snapshot |-> ClientSnapshotSchema,
             core_drivers |-> SArray(SString),
             top_recommendations |-> SArray(RecommendationSchema),
             matched_use_cases |-> SArray(UseCaseSchema),
             diagrams |-> DiagramsSchema,
             recommended_pilot |-> PilotSchema,
             implementation_phases |-> SArray(PhaseSchema),
             next_steps |-> NextStepsSchema,
             executive_summary |-> SString],
            <<"client_snapshot", "core_drivers", "top_recommendations",
              "matched_use_cases", "diagrams", "recommended_pilot",
              "implementation_phases", "next_steps", "executive_summary">>)

---------------------------------------------------------------------------
(* The AnalysisResult interface, member by member. *)

TString == [type |-> "string"]

TNumber == [type |-> "number"]

\* t[]
TArray(of) == [type |-> "array", of |-> of]

\* { member: type; ... }
TObject(members) == [type |-> "object", members |-> members]

ClientSnapshotType ==
    TObject([organization_type |-> TString,
             technical_maturity_level |-> TString,
             top_priorities |-> TArray(TString),
             constraints |-> TArray(TString),
             risk_factors |-> TArray(TString),
             detected_pains |-> TArray(TString),
             detected_goals |-> TArray(TString)])

\* The recommendation of the interface as it was before costs were added.
RecommendationType_Older ==
    TObject([solution_name |-> TString,
             architecture_layer |-> TString,
             business_value |-> TString,
             technical_reason |-> TString,
             transcript_reference |-> TString,
             confidence_score |-> TNumber,
             pricing_model |-> TString,
             why_it_fits |-> TString,
             complementary_solutions |-> TArray(TString)])

RecommendationType ==
    TObject([solution_name |-> TString,
             architecture_layer |-> TString,
             business_value |-> TString,
             technical_reason |-> TString,
             transcript_reference |-> TString,
             confidence_score |-> TNumber,
             pricing_model |-> TString,
             estimated_monthly_cost |-> TString,
             cost_breakdown |-> TArray(TString),
             why_it_fits |-> TString,
             complementary_solutions |-> TArray(TString)])

UseCaseType ==
    TObject([scenario_name |-> TString,
             format |-> TString,
             situation |-> TString,
             problem_or_task |-> TString,
             action |-> TString,
             result |-> TString,
             industry_relevance |-> TString])

DiagramsType ==
    TObject([use_case_diagram |-> TString,
             tech_architecture_diagram |-> TString])

PilotType ==
    TObject([name |-> TString,
             why_this_pilot |-> TString,
             high_level_architecture |-> TArray(TString),
             measurable_success_metrics |-> TArray(TString)])

PhaseType ==
    TObject([phase_name |-> TString,
             focus |-> TString,
             expected_outcome |-> TString])

NextStepsType ==
    TObject([demo_direction |-> TString,
             follow_up_focus |-> TString,
             validation_questions |-> TArray(TString)])

AnalysisResult ==
    TObject([client_snapshot |-> ClientSnapshotType,
             core_drivers |-> TArray(TString),
             top_recommendations |-> TArray(RecommendationType),
             matched_use_cases |-> TArray(UseCaseType),
             diagrams |-> DiagramsType,
             recommended_pilot |-> PilotType,
             implementation_phases |-> TArray(PhaseType),
             next_steps |-> NextStepsType,
             executive_summary |-> TString])

---------------------------------------------------------------------------
(* JSON text, as a sequence of lexical tokens, and JSON.parse. *)

Tok(t, v) == [t |-> t, v |-> v]

LBrace == Tok("punct", "{")

RBrace == Tok("punct", "}")

LBracket == Tok("punct", "[")

RBracket == Tok("punct", "]")

Colon == Tok("punct", ":")

Comma == Tok("punct", ",")

\* What lies past the end of the text.
EndOfText == Tok("end", "")

\* The number literals of the model, with their values in thousandths.
NumberValue == [n \in {"0", "0.83", "0.835", "1.4"} |->
                  CASE n = "0" -> 0 [] n = "0.83" -> 830
                    [] n = "0.835" -> 835 [] n = "1.4" -> 1400]

TokAt(toks, i) == IF i \in 1..Len(toks) THEN toks[i] ELSE EndOfText

ParseOk(val, next) == [ok |-> TRUE, val |-> val, next |-> next]

ParseFail == [ok |-> FALSE, val |-> JNull, next |-> 0]

RECURSIVE ParseValue(_, _)
RECURSIVE ParseMembers(_, _, _)
RECURSIVE ParseElements(_, _, _)

\* The members of an object from token i on: "key" : value { , "key" : value } }.
\* A key given twice keeps its last value.
ParseMembers(toks, i, acc) ==
    IF TokAt(toks, i).t # "str" \/ TokAt(toks, i + 1) # Colon
    THEN ParseFail
    ELSE LET r == ParseValue(toks, i + 2)
         IN  IF ~r.ok
             THEN ParseFail
             ELSE LET members == (TokAt(toks, i).v :> r.val) @@ acc
                  IN  IF TokAt(toks, r.next) = Comma
                      THEN ParseMembers(toks, r.next + 1, members)
                      ELSE IF TokAt(toks, r.next) = RBrace
                           THEN ParseOk(JObj(members), r.next + 1)
                           ELSE ParseFail

\* The elements of an array from token i on: value { , value } ].
ParseElements(toks, i, acc) ==
    LET r == ParseValue(toks, i)
    IN  IF ~r.ok
        THEN ParseFail
        ELSE IF TokAt(toks, r.next) = Comma
             THEN ParseElements(toks, r.next + 1, Append(acc, r.val))
             ELSE IF TokAt(toks, r.next) = RBracket
                  THEN ParseOk(JArr(Append(acc, r.val)), r.next + 1)
                  ELSE ParseFail

\* One JSON value from token i on.
ParseValue(toks, i) ==
    LET tk == TokAt(toks, i)
    IN  CASE tk = Tok("lit", "null") -> ParseOk(JNull, i + 1)
          [] tk = Tok("lit", "true") -> ParseOk(JBool(TRUE), i + 1)
          [] tk = Tok("lit", "false") -> ParseOk(JBool(FALSE), i + 1)
          [] tk.t = "str" -> ParseOk(JStr(tk.v), i + 1)
          [] tk.t = "num" /\ tk.v \in DOMAIN NumberValue ->
                ParseOk(JNum(NumberValue[tk.v]), i + 1)
          [] tk = LBrace ->
                IF TokAt(toks, i + 1) = RBrace
                THEN ParseOk(EmptyObject, i + 2)
                ELSE ParseMembers(toks, i + 1, <<>>)
          [] tk = LBracket ->
                IF TokAt(toks, i + 1) = RBracket
                THEN ParseOk(JArr(<<>>), i + 2)
                ELSE ParseElements(toks, i + 1, <<>>)
          [] OTHER -> ParseFail

\* JSON.parse(text): the value, or a thrown SyntaxError when the text is not
\* exactly one JSON value.
JSONParse(text) ==
    LET r == ParseValue(text, 1)
    IN  IF r.ok /\ r.next = Len(text) + 1
        THEN [threw |-> FALSE, value |-> r.val, thrown |-> ""]
        ELSE [threw |-> TRUE, value |-> JNull, thrown |-> "SyntaxError"]

---------------------------------------------------------------------------
(* The remote model: what generateContent may settle with. *)

RECURSIVE Stringify(_)
RECURSIVE StringifyMembers(_, _)
RECURSIVE StringifyItems(_, _)

\* The JSON text of a value, as the remote model writes it.
Stringify(v) ==
    CASE v.kind = "null" -> <<Tok("lit", "null")>>
      [] v.kind = "boolean" -> <<Tok("lit", IF v.bool THEN "true" ELSE "false")>>
      [] v.kind = "string" -> <<Tok("str", v.str)>>
      [] v.kind = "number" ->
            <<Tok("num", CHOOSE n \in DOMAIN NumberValue : NumberValue[n] = v.num)>>
      [] v.kind = "array" -> <<LBracket>> \o StringifyItems(v.items, 1) \o <<RBracket>>
      [] v.kind = "object" ->
            <<LBrace>> \o StringifyMembers(v.members, DOMAIN v.members) \o <<RBrace>>

StringifyMembers(members, keys) ==
    IF keys = {}
    THEN <<>>
    ELSE LET k == CHOOSE x \in keys : TRUE
         IN  <<Tok("str", k), Colon>> \o Stringify(members[k])
             \o (IF keys = {k} THEN <<>> ELSE <<Comma>>)
             \o StringifyMembers(members, keys \ {k})

StringifyItems(items, i) ==
    IF i > Len(items)
    THEN <<>>
    ELSE Stringify(items[i])
         \o (IF i = Len(items) THEN <<>> ELSE <<Comma>>)
         \o StringifyItems(items, i + 1)

RECURSIVE Populate(_, _)

\* A document with every declared property of the schema, its strings being
\* fill.str, its numbers fill.num and its arrays of one element.
Populate(schema, fill) ==
    CASE schema.type = "STRING" -> JStr(fill.str)
      [] schema.type = "NUMBER" -> JNum(fill.num)
      [] schema.type = "ARRAY" -> JArr(<<Populate(schema.items, fill)>>)
      [] schema.type = "OBJECT" ->
            JObj([k \in DOMAIN schema.properties |->
                    Populate(schema.properties[k], fill)])

\* Strategies the remote model may answer with, all following the schema.
\* The first scores its recommendation 0.83.
StrategyA == Populate(ARCHITECT_SCHEMA, [str |-> "A", num |-> 830])

\* The second gives four recommendations, scored 1.4, 0.835, 0.835 and 0.835,
\* in the layers "B", "Security", "security" and "constructor", leaves its
\* use-case diagram empty, tells four use cases in the formats "STAR", "SPAR",
\* "star" and "", and plans three phases.
StrategyB ==
    LET doc == Populate(ARCHITECT_SCHEMA, [str |-> "B", num |-> 1400]).members
        rec == doc.top_recommendations.items[1].members
        uc == doc.matched_use_cases.items[1].members
        phase == doc.implementation_phases.items[1].members
    IN  JObj([doc EXCEPT
                !.top_recommendations =
                    JArr(<<JObj(rec),
                           JObj([rec EXCEPT !.confidence_score = JNum(835),
                                            !.architecture_layer = JStr("Security")]),
                           JObj([rec EXCEPT !.confidence_score = JNum(835),
                                            !.architecture_layer = JStr("security")]),
                           JObj([rec EXCEPT !.confidence_score = JNum(835),
                                            !.architecture_layer = JStr("constructor")])>>),
                !.diagrams =
                    JObj([@.members EXCEPT !.use_case_diagram = JStr("")]),
                !.matched_use_cases =
                    JArr(<<JObj([uc EXCEPT !.format = JStr("STAR")]),
                           JObj([uc EXCEPT !.format = JStr("SPAR")]),
                           JObj([uc EXCEPT !.format = JStr("star")]),
                           JObj([uc EXCEPT !.format = JStr("")])>>),
                !.implementation_phases =
                    JArr(<<JObj([phase EXCEPT !.phase_name = JStr("B1")]),
                           JObj([phase EXCEPT !.phase_name = JStr("B2")]),
                           JObj([phase EXCEPT !.phase_name = JStr("B3")])>>)])

\* A third strategy is the first with its recommendation in a layer that the
\* remote model named "__proto__".
StrategyC ==
    LET doc == StrategyA.members
        rec == doc.top_recommendations.items[1].members
    IN  JObj([doc EXCEPT
                !.top_recommendations =
                    JArr(<<JObj([rec EXCEPT
                                   !.architecture_layer = JStr("__proto__")])>>)])

\* A response: the call resolved, with or without a text.
Resolved(text) == [settled |-> "resolve", hasText |-> TRUE, text |-> text]

ResolvedNoText == [settled |-> "resolve", hasText |-> FALSE, text |-> <<>>]

\* The call rejected: the network failed, or the credential was refused.
Rejected(reason) == [settled |-> "reject", hasText |-> FALSE, text |-> <<>>,
                     reason |-> reason]

\* The texts a resolved call may carry: the three strategies, the empty text,
\* an object with one of the required fields, the literal null, a document
\* cut short, and a text that is not JSON.
ResponseTexts ==
    { Stringify(StrategyA),
      Stringify(StrategyB),
      Stringify(StrategyC),
      <<>>,
      <<LBrace, Tok("str", "executive_summary"), Colon, Tok("str", "A"), RBrace>>,
      <<Tok("lit", "null")>>,
      <<LBrace, Tok("str", "executive_summary"), Colon>>,
      <<Tok("junk", "<html>")>> }

Responses ==
    {Resolved(t) : t \in ResponseTexts} \cup {ResolvedNoText}
    \cup {Rejected(r) : r \in {"network", "credential"}}

---------------------------------------------------------------------------
(* Transcripts and String.prototype.trim. *)

\* The characters trim() strips that the model's transcripts use.
WhiteSpace == {" ", "\t", "\n"}

\* The sample transcript, cut to its first words.
SAMPLE_TRANSCRIPT ==
    <<"A", "r", "c", "h", "i", "t", "e", "c", "t", ":", " ",
      "T", "h", "a", "n", "k", "s">>

\* The texts the user may put in the textarea.
Transcripts ==
    { <<>>,
      <<" ">>,
      <<"\n", "\t", " ">>,
      <<"a">>,
      <<" ", "b", " ">>,
      SAMPLE_TRANSCRIPT }

RECURSIVE TrimStart(_)
TrimStart(s) ==
    IF s # <<>> /\ Head(s) \in WhiteSpace THEN TrimStart(Tail(s)) ELSE s

RECURSIVE TrimEnd(_)
TrimEnd(s) ==
    IF s # <<>> /\ s[Len(s)] \in WhiteSpace
    THEN TrimEnd(SubSeq(s, 1, Len(s) - 1))
    ELSE s

\* s.trim()
Trim(s) == TrimEnd(TrimStart(s))

\* A guard that forgets trim(): !transcript.
IsBlank_EmptyOnly(t) == t = <<>>

\* !transcript.trim(): the empty string is the only falsy string.
IsBlank(t) == Trim(t) = <<>>

---------------------------------------------------------------------------
(* The Analysis Client: analyzeTranscript. *)

\* The instruction text before and after the embedded transcript, cut to
\* their first and last lines.
PROMPT_PREFIX ==
    <<"You are a senior enterprise cloud solutions architect", "\n",
      "Transcript:", "\n">>

PROMPT_SUFFIX ==
    <<"\n", "\n", "Strategic Requirements:", "\n",
      "Output must be executive-ready">>

\* A template that embeds the transcript trimmed.
BuildPrompt_Trimmed(t) == PROMPT_PREFIX \o Trim(t) \o PROMPT_SUFFIX

\* The template literal of the request's text part.
BuildPrompt(t) == PROMPT_PREFIX \o t \o PROMPT_SUFFIX

\* The argument of ai.models.generateContent.
GenerateContentRequest(t) ==
    [model |-> "gemini-3.1-pro-preview",
     role |-> "user",
     text |-> BuildPrompt(t),
     responseMimeType |-> "application/json",
     responseSchema |-> ARCHITECT_SCHEMA]

\* A client that sends its request a second time.
OutboundCalls_Twice(t) == <<GenerateContentRequest(t), GenerateContentRequest(t)>>

\* The requests one analyzeTranscript(t) sends.
OutboundCalls(t) == <<GenerateContentRequest(t)>>

\* A client that parses whatever text the response has.
TextOrDefault_NoDefault(response) == response.text

\* response.text || "{}"
TextOrDefault(response) ==
    IF response.hasText /\ response.text # <<>>
    THEN response.text
    ELSE <<LBrace, RBrace>>

\* What analyzeTranscript does once its generateContent call has settled with
\* response: it throws what the call rejected with or what JSON.parse threw,
\* and otherwise returns the parsed value.
AnalyzeOutcome(response) ==
    IF response.settled = "reject"
    THEN [threw |-> TRUE, value |-> JNull, thrown |-> response.reason]
    ELSE JSONParse(TextOrDefault(response))

\* AnalyzeOutcome of every response of the model, evaluated once.
Outcomes == [response \in Responses |-> AnalyzeOutcome(response)]

---------------------------------------------------------------------------
(* The Report Renderer: the expressions of App's JSX, and what they leave on
   the page. *)

JUndefined == [kind |-> "undefined"]

\* What an expression leaves in place of its value when it throws.
Thrown == [kind |-> "thrown"]

Nullish(v) == v.kind \in {"null", "undefined"}

\* Whether v counts as true in !v, v || w, v && w and v ? a : b.
Truthy(v) ==
    CASE v.kind \in {"null", "undefined"} -> FALSE
      [] v.kind = "string" -> v.str # ""
      [] v.kind = "number" -> v.num # 0
      [] v.kind = "boolean" -> v.bool
      [] OTHER -> TRUE

\* v || w
Or(v, w) == IF v = Thrown THEN Thrown ELSE IF Truthy(v) THEN v ELSE w

\* v.k: a TypeError on null and undefined, undefined where v has no such member.
Member(v, k) ==
    CASE v = Thrown -> Thrown
      [] Nullish(v) -> Thrown
      [] v.kind = "object" ->
            IF k \in DOMAIN v.members THEN v.members[k] ELSE JUndefined
      [] OTHER -> JUndefined

\* v[i], i counted from 0.
Index(v, i) ==
    CASE v = Thrown -> Thrown
      [] Nullish(v) -> Thrown
      [] v.kind = "array" ->
            IF i + 1 \in DOMAIN v.items THEN v.items[i + 1] ELSE JUndefined
      [] OTHER -> JUndefined

RECURSIVE Path(_, _)

\* v.k1.k2...
Path(v, keys) ==
    IF keys = <<>> THEN v ELSE Path(Member(v, Head(keys)), Tail(keys))

\* v?.k1.k2...: undefined when v is null or undefined, whatever follows.
OptChain(v, keys) == IF Nullish(v) THEN JUndefined ELSE Path(v, keys)

\* v === w
StrictEq(v, w) == v = w

\* One thing on the page: where it stands, what it is and what it shows.
Node(slot, kind, str) == [slot |-> slot, kind |-> kind, str |-> str]

RECURSIVE Concat(_)

Concat(seqs) == IF seqs = <<>> THEN <<>> ELSE Head(seqs) \o Concat(Tail(seqs))

\* String(v) of a number of the model.
NumberText(n) == CHOOSE t \in DOMAIN NumberValue : NumberValue[t] = n

RECURSIVE Child(_, _)

\* {v} as a child of an element: strings and numbers are shown, null,
\* undefined and booleans show nothing, an array shows its items and an
\* object is refused by React with an error.
Child(slot, v) ==
    CASE v = Thrown -> <<Node(slot, "thrown", "")>>
      [] v.kind = "string" -> <<Node(slot, "text", v.str)>>
      [] v.kind = "number" -> <<Node(slot, "text", NumberText(v.num))>>
      [] v.kind = "array" ->
            Concat([i \in DOMAIN v.items |-> Child(slot, v.items[i])])
      [] v.kind = "object" -> <<Node(slot, "thrown", "")>>
      [] OTHER -> <<Node(slot, "none", "")>>

\* The items v.map would visit.
Items(v) == IF v # Thrown /\ v.kind = "array" THEN v.items ELSE <<>>

\* v.map(...) as a child, rendered being what the callback returns for each
\* item: a TypeError unless v is an array.
Map(slot, v, rendered) ==
    IF v # Thrown /\ v.kind = "array"
    THEN Concat(rendered)
    ELSE <<Node(slot, "thrown", "")>>

\* v.map((x, i) => <li>{x}</li>)
TextList(slot, v) ==
    Map(slot, v, [i \in DOMAIN Items(v) |-> Child(slot, Items(v)[i])])

NaN == [kind |-> "NaN"]

\* v * 100, for the values of the model: a number in thousandths, NaN for
\* undefined, objects and the strings that spell no number.
Times100(v) ==
    CASE v = Thrown -> Thrown
      [] v.kind = "number" -> JNum(v.num * 100)
      [] v.kind = "null" -> JNum(0)
      [] v.kind = "boolean" -> JNum(IF v.bool THEN 100000 ELSE 0)
      [] v.kind = "string" /\ v.str = "" -> JNum(0)
      [] OTHER -> NaN

\* A display that holds the percentage inside 0..100.
ToFixed0_Clamped(x) ==
    IF x = NaN
    THEN "NaN"
    ELSE LET n == (x.num + 500) \div 1000
         IN  ToString(IF n < 0 THEN 0 ELSE IF n > 100 THEN 100 ELSE n)

\* x.toFixed(0): the nearest integer, the larger of two equally near, with the
\* sign in front. The product reaches it exact: 0.83 * 100, 1.4 * 100 and
\* 0.835 * 100 are 83, 140 and 83.5 as doubles too.
ToFixed0(x) ==
    IF x = NaN
    THEN "NaN"
    ELSE LET a == IF x.num < 0 THEN 0 - x.num ELSE x.num
         IN  (IF x.num < 0 THEN "-" ELSE "") \o ToString((a + 500) \div 1000)

\* {(rec.confidence_score * 100).toFixed(0)}%
ConfidenceDisplay(score) ==
    IF score = Thrown
    THEN <<Node("confidence", "thrown", "")>>
    ELSE <<Node("confidence", "text", ToFixed0(Times100(score)) \o "%")>>

LAYER_ICONS ==
    [layer \in {"Foundation", "Identity", "Network", "Security", "Storage",
                "Compute", "AI"} |->
       CASE layer = "Foundation" -> "Layers"
         [] layer = "Identity" -> "Lock"
         [] layer = "Network" -> "Network"
         [] layer = "Security" -> "Shield"
         [] layer = "Storage" -> "Database"
         [] layer = "Compute" -> "Cpu"
         [] layer = "AI" -> "BrainCircuit"]

\* What LAYER_ICONS, an object literal, inherits from Object.prototype: the
\* names a lookup finds although the literal does not list them, and the kind
\* of value it finds there.
ObjectPrototype ==
    [name \in {"constructor", "hasOwnProperty", "isPrototypeOf",
               "propertyIsEnumerable", "toLocaleString", "toString", "valueOf",
               "__proto__"} |->
        IF name = "__proto__" THEN "object" ELSE "function"]

\* {LAYER_ICONS[layer] || <ChevronRight />}: an own key gives its icon; an
\* inherited name gives a truthy value that is no element, which React shows
\* as nothing when it is a function and refuses with an error when it is an
\* object; every other key gives undefined and so the fallback.
LayerIcon(layer) ==
    CASE layer = Thrown -> <<Node("icon", "thrown", "")>>
      [] layer.kind = "string" /\ layer.str \in DOMAIN LAYER_ICONS ->
            <<Node("icon", "icon", LAYER_ICONS[layer.str])>>
      [] layer.kind = "string" /\ layer.str \in DOMAIN ObjectPrototype ->
            <<Node("icon", IF ObjectPrototype[layer.str] = "object"
                           THEN "thrown" ELSE "none", "")>>
      [] OTHER -> <<Node("icon", "icon", "ChevronRight")>>

\* <Mermaid chart={chart} />: the div that shows {chart}.
MermaidElement(slot, chart) ==
    LET shown == Child(slot, chart)
    IN  [i \in DOMAIN shown |->
           IF shown[i].kind = "text"
           THEN Node(slot, "mermaid", shown[i].str)
           ELSE shown[i]]

\* One card of Top Strategic Recommendations.
RecommendationCard(rec, i) ==
    LayerIcon(Member(rec, "architecture_layer"))
    \o Child("architecture_layer", Member(rec, "architecture_layer"))
    \o Child("solution_name", Member(rec, "solution_name"))
    \o ConfidenceDisplay(Member(rec, "confidence_score"))
    \o Child("why_it_fits", Member(rec, "why_it_fits"))
    \o Child("transcript_reference", Member(rec, "transcript_reference"))
    \o Child("estimated_monthly_cost", Member(rec, "estimated_monthly_cost"))
    \o TextList("cost_breakdown", Member(rec, "cost_breakdown"))
    \o Child("pricing_model", Member(rec, "pricing_model"))
    \o Child("business_value", Member(rec, "business_value"))
    \o TextList("complementary_solutions",
                Member(rec, "complementary_solutions"))
    \o Child("technical_reason", Member(rec, "technical_reason"))

\* A comparison that ignored case would label "star" a Task as well.
TaskOrProblem_IgnoresCase(format) ==
    IF format = Thrown
    THEN <<Node("task_label", "thrown", "")>>
    ELSE <<Node("task_label", "text",
                IF format \in {JStr("STAR"), JStr("star")} THEN "Task" ELSE "Problem")>>

\* {uc.format === 'STAR' ? 'Task' : 'Problem'}
TaskOrProblem(format) ==
    IF format = Thrown
    THEN <<Node("task_label", "thrown", "")>>
    ELSE <<Node("task_label", "text",
                IF StrictEq(format, JStr("STAR")) THEN "Task" ELSE "Problem")>>

\* One card of Matched Use Cases.
UseCaseCard(uc, i) ==
    Child("scenario_name", Member(uc, "scenario_name"))
    \o Child("format", Member(uc, "format"))
    \o Child("situation", Member(uc, "situation"))
    \o TaskOrProblem(Member(uc, "format"))
    \o Child("problem_or_task", Member(uc, "problem_or_task"))
    \o Child("action", Member(uc, "action"))
    \o Child("result", Member(uc, "result"))
    \o Child("industry_relevance", Member(uc, "industry_relevance"))

\* A card labelled Phase {i} would count the phases from 0.
PhaseCard_FromZero(phase, i) ==
    <<Node("phase_label", "text", "Phase " \o ToString(i - 1))>>
    \o Child("phase_name", Member(phase, "phase_name"))
    \o Child("focus", Member(phase, "focus"))
    \o Child("expected_outcome", Member(phase, "expected_outcome"))

\* One card of the Implementation Roadmap: Phase {i + 1}, i counted from 0.
PhaseCard(phase, i) ==
    <<Node("phase_label", "text", "Phase " \o ToString((i - 1) + 1))>>
    \o Child("phase_name", Member(phase, "phase_name"))
    \o Child("focus", Member(phase, "focus"))
    \o Child("expected_outcome", Member(phase, "expected_outcome"))

\* {result?.matched_use_cases[0]?.format}
FirstFormat(r) ==
    IF Nullish(r)
    THEN JUndefined
    ELSE LET first == Index(Member(r, "matched_use_cases"), 0)
         IN  IF first # Thrown /\ Nullish(first)
             THEN JUndefined
             ELSE Member(first, "format")

\* The report branch of the output section, section by section.
Report(r) ==
    Child("executive_summary", OptChain(r, <<"executive_summary">>))
    \o Child("demo_direction", OptChain(r, <<"next_steps", "demo_direction">>))
    \o Child("follow_up_focus", OptChain(r, <<"next_steps", "follow_up_focus">>))
    \o TextList("validation_questions",
                OptChain(r, <<"next_steps", "validation_questions">>))
    \o Child("organization_type",
             OptChain(r, <<"client_snapshot", "organization_type">>))
    \o Child("technical_maturity_level",
             OptChain(r, <<"client_snapshot", "technical_maturity_level">>))
    \o TextList("core_drivers", OptChain(r, <<"core_drivers">>))
    \o TextList("detected_goals",
                OptChain(r, <<"client_snapshot", "detected_goals">>))
    \o TextList("detected_pains",
                OptChain(r, <<"client_snapshot", "detected_pains">>))
    \o TextList("risk_factors",
                OptChain(r, <<"client_snapshot", "risk_factors">>))
    \o TextList("constraints",
                OptChain(r, <<"client_snapshot", "constraints">>))
    \o Map("top_recommendations", OptChain(r, <<"top_recommendations">>),
           [i \in DOMAIN Items(OptChain(r, <<"top_recommendations">>)) |->
              RecommendationCard(Items(OptChain(r, <<"top_recommendations">>))[i], i)])
    \o MermaidElement("use_case_diagram",
                      Or(OptChain(r, <<"diagrams", "use_case_diagram">>), JStr("")))
    \o MermaidElement("tech_architecture_diagram",
                      Or(OptChain(r, <<"diagrams", "tech_architecture_diagram">>),
                         JStr("")))
    \o Child("first_format", FirstFormat(r))
    \o Map("matched_use_cases", OptChain(r, <<"matched_use_cases">>),
           [i \in DOMAIN Items(OptChain(r, <<"matched_use_cases">>)) |->
              UseCaseCard(Items(OptChain(r, <<"matched_use_cases">>))[i], i)])
    \o Map("implementation_phases", OptChain(r, <<"implementation_phases">>),
           [i \in DOMAIN Items(OptChain(r, <<"implementation_phases">>)) |->
              PhaseCard(Items(OptChain(r, <<"implementation_phases">>))[i], i)])
    \o Child("pilot_name", OptChain(r, <<"recommended_pilot", "name">>))
    \o Child("why_this_pilot", OptChain(r, <<"recommended_pilot", "why_this_pilot">>))
    \o TextList("high_level_architecture",
                OptChain(r, <<"recommended_pilot", "high_level_architecture">>))
    \o TextList("measurable_success_metrics",
                OptChain(r, <<"recommended_pilot", "measurable_success_metrics">>))

\* The values the model's responses can put in result, and the initial null.
Results == {JNull} \cup {Outcomes[response].value : response \in Responses}

\* Report of every such value, evaluated once.
Reports == [r \in Results |-> Report(r)]

\* Whether rendering element list nodes threw.
Threw(nodes) == \E i \in DOMAIN nodes : nodes[i].kind = "thrown"

\* An output section that keeps a stored report on the page while a call is in
\* flight.
View_KeepsReport(s) ==
    IF Truthy(s.result)
    THEN "report"
    ELSE IF s.isAnalyzing THEN "skeleton" ELSE "placeholder"

\* Which branch of the output section shell state s shows.
View(s) ==
    IF ~Truthy(s.result) /\ ~s.isAnalyzing
    THEN "placeholder"
    ELSE IF s.isAnalyzing THEN "skeleton" ELSE "report"

\* The output section for shell state s.
Output(s) ==
    CASE View(s) = "placeholder" ->
            <<Node("output", "placeholder", "Ready for Analysis")>>
      [] View(s) = "skeleton" -> <<Node("output", "skeleton", "")>>
      [] View(s) = "report" -> Reports[s.result]

\* {error && <p>{error}</p>}
ErrorParagraph(s) == IF Truthy(s.error) THEN Child("error", s.error) ELSE <<>>

\* What App returns for shell state s: the error paragraph of the input
\* section, then the output section.
Render(s) == ErrorParagraph(s) \o Output(s)

\* Whether the report of each value throws, evaluated once.
ReportThrew == [r \in Results |-> Threw(Reports[r])]

\* Whether App throws while it renders shell state s.
RenderThrew(s) ==
    \/ Threw(ErrorParagraph(s))
    \/ View(s) = "report" /\ ReportThrew[s.result]

\* The two Mermaid elements of the report.
Diagrams == {"use_case_diagram", "tech_architecture_diagram"}

NoChart == [mounted |-> FALSE, chart |-> ""]

\* The chart each Mermaid element of an element list is given.
ChartsIn(nodes) ==
    [d \in Diagrams |->
       LET at == {i \in DOMAIN nodes :
                    nodes[i].kind = "mermaid" /\ nodes[i].slot = d}
       IN  IF Threw(nodes) \/ at = {}
           THEN NoChart
           ELSE [mounted |-> TRUE, chart |-> nodes[CHOOSE i \in at : TRUE].str]]

\* ChartsIn of every report, evaluated once.
ReportCharts == [r \in Results |-> ChartsIn(Reports[r])]

\* The Mermaid elements on the page in shell state s, with their charts.
Charts(s) ==
    IF View(s) = "report"
    THEN ReportCharts[s.result]
    ELSE [d \in Diagrams |-> NoChart]

\* An effect without its dependency list, which runs after every render.
EffectRuns_EveryRender(before, after) == after.mounted

\* useEffect(..., [chart]): the effect runs when the element is mounted and
\* when its chart has changed.
EffectRuns(before, after) ==
    after.mounted /\ (~before.mounted \/ before.chart # after.chart)

\* if (ref.current && chart): the empty chart is not handed to mermaid.
RunsMermaid(chart) == chart # ""

\* The Mermaid components once React has committed shell state after, the
\* page having shown shell state before.
EffectsAfter(before, after) ==
    [d \in Diagrams |->
       LET was == Charts(before)[d]
           now == Charts(after)[d]
       IN  IF ~now.mounted
           THEN "unmounted"
           ELSE IF EffectRuns(was, now)
                THEN IF RunsMermaid(now.chart) THEN "running" ELSE "skipped"
                ELSE mermaid[d]]

---------------------------------------------------------------------------
(* The Application Shell: App. *)

ERROR_MESSAGE ==
    "Failed to analyze transcript. Please check your API key and try again."

Shell == [isAnalyzing |-> isAnalyzing, result |-> result, error |-> error]

SetShell(s) ==
    /\ isAnalyzing' = s.isAnalyzing
    /\ result' = s.result
    /\ error' = s.error

\* A button that stays enabled while a call is in flight.
ControlDisabled_IgnoresAnalyzing == IsBlank(transcript)

\* The Generate Strategy button's disabled attribute.
ControlDisabled == isAnalyzing \/ IsBlank(transcript)

\* A start that leaves the earlier error in place.
OnStart_KeepsError == [Shell EXCEPT !.isAnalyzing = TRUE]

\* A start that does not raise the flag.
OnStart_LeavesFlag == [Shell EXCEPT !.error = JNull]

\* handleAnalyze up to its await: setIsAnalyzing(true); setError(null).
OnStart == [Shell EXCEPT !.isAnalyzing = TRUE, !.error = JNull]

\* A completion behind a generation guard: only the newest call's data is stored.
OnSuccess_NewestOnly(c, data) ==
    [Shell EXCEPT !.result = IF c = issued THEN data ELSE result,
                  !.isAnalyzing = FALSE]

\* A completion that keeps the first result it stored.
OnSuccess_FirstWins(c, data) ==
    [Shell EXCEPT !.result = IF result = JNull THEN data ELSE result,
                  !.isAnalyzing = FALSE]

\* A completion that clears the flag in the catch block only.
OnSuccess_SkipsFinally(c, data) == [Shell EXCEPT !.result = data]

\* handleAnalyze after its await, call c having returned data:
\* setResult(data), then the finally block.
OnSuccess(c, data) == [Shell EXCEPT !.result = data, !.isAnalyzing = FALSE]

\* A catch block that also drops the stored result.
OnFailure_ClearsResult(c, err) ==
    [Shell EXCEPT !.error = JStr(ERROR_MESSAGE), !.result = JNull,
                  !.isAnalyzing = FALSE]

\* A catch block that shows what was thrown.
OnFailure_ShowsCause(c, err) ==
    [Shell EXCEPT !.error = JStr(err), !.isAnalyzing = FALSE]

\* A catch block after which nothing clears the flag.
OnFailure_LeavesFlag(c, err) == [Shell EXCEPT !.error = JStr(ERROR_MESSAGE)]

\* handleAnalyze after its await, call c having thrown err: the catch block
\* (err goes to the console only), then the finally block.
OnFailure(c, err) ==
    [Shell EXCEPT !.error = JStr(ERROR_MESSAGE), !.isAnalyzing = FALSE]

\* A catch block in Mermaid that reports the failure to the shell.
OnRenderError_SetsError == [Shell EXCEPT !.error = JStr("Mermaid render error")]

\* Mermaid's catch block: console.error, and nothing else.
OnRenderError == Shell

\* App is on the page: React takes the whole tree down when rendering throws
\* (there is no error boundary), after which no handler runs and no state is
\* set.
Mounted == ~RenderThrew(Shell)

\* The response that mounting, editing and triggering have none of.
NoResponse == [settled |-> "none", hasText |-> FALSE, text |-> <<>>]

\* The trigger record of a handler that settled no call.
NoTrigger == [transcript |-> <<>>,
              shell |-> [isAnalyzing |-> FALSE, result |-> JNull, error |-> JNull],
              inFlight |-> {}]

\* What a handler leaves in last: its name, the call it settled (0: none), the
\* shell state and the number of calls made when it started.
Ran(op, c) ==
    [op |-> op, call |-> c, pre |-> Shell, sent |-> issued,
     response |-> NoResponse, ok |-> FALSE, data |-> JNull, trigger |-> NoTrigger]

\* A settled call: its number, whether it returned, what it returned, and the
\* transcript and the calls in flight when it was triggered.
Completion(c, ok, data, trigger) ==
    [call |-> c, ok |-> ok, data |-> data, transcript |-> trigger.transcript,
     inFlight |-> trigger.inFlight]

NoCompletion == Completion(0, FALSE, JNull, NoTrigger)

Init ==
    /\ transcript = <<>>
    /\ isAnalyzing = FALSE
    /\ result = JNull
    /\ error = JNull
    /\ issued = 0
    /\ pending = <<>>
    /\ last = [op |-> "mount", call |-> 0, pre |-> NoTrigger.shell, sent |-> 0,
               response |-> NoResponse, ok |-> FALSE, data |-> JNull,
               trigger |-> NoTrigger]
    /\ done = [latest |-> NoCompletion, previous |-> NoCompletion]
    /\ mermaid = [d \in Diagrams |-> "unmounted"]

\* An edit that reaches the calls in flight, as if they read the textarea when
\* they are sent on.
SetTranscript_ReachesCalls(t) ==
    /\ Mounted
    /\ transcript' = t
    /\ last' = Ran("setTranscript", 0)
    /\ pending' = [c \in DOMAIN pending |->
                     [pending[c] EXCEPT !.transcript = t,
                                        !.request = GenerateContentRequest(t)]]
    /\ UNCHANGED <<isAnalyzing, result, error, issued, done>>
    /\ mermaid' = EffectsAfter(Shell, Shell')

\* The textarea's onChange: setTranscript(e.target.value).
SetTranscript(t) ==
    /\ Mounted
    /\ transcript' = t
    /\ last' = Ran("setTranscript", 0)
    /\ UNCHANGED <<isAnalyzing, result, error, issued, pending, done>>
    /\ mermaid' = EffectsAfter(Shell, Shell')

\* loadSample: setTranscript(SAMPLE_TRANSCRIPT).
LoadSample ==
    /\ Mounted
    /\ transcript' = SAMPLE_TRANSCRIPT
    /\ last' = Ran("loadSample", 0)
    /\ UNCHANGED <<isAnalyzing, result, error, issued, pending, done>>
    /\ mermaid' = EffectsAfter(Shell, Shell')

\* handleAnalyze, from its call to its await.
HandleAnalyze ==
    /\ Mounted
    /\ last' = Ran("handleAnalyze", 0)
    /\ UNCHANGED <<transcript, done>>
    /\ IF IsBlank(transcript)
       THEN UNCHANGED <<isAnalyzing, result, error, issued, pending>>
       ELSE LET sent == OutboundCalls(transcript)
            IN  /\ issued + Len(sent) <= MaxCalls
                /\ SetShell(OnStart)
                /\ issued' = issued + Len(sent)
                /\ pending' =
                      [c \in DOMAIN pending \cup (issued + 1 .. issued + Len(sent)) |->
                         IF c \in DOMAIN pending
                         THEN pending[c]
                         ELSE [request |-> sent[c - issued],
                               transcript |-> transcript,
                               shell |-> Shell,
                               inFlight |-> DOMAIN pending]]
    /\ mermaid' = EffectsAfter(Shell, Shell')

\* A click on the Generate Strategy button, which a disabled button ignores.
ClickAnalyze ==
    /\ ~ControlDisabled
    /\ HandleAnalyze

\* handleAnalyze called whatever the state of the button.
InvokeAnalyze == HandleAnalyze

\* Call c's generateContent settles with response, and analyzeTranscript and
\* handleAnalyze run to their end.
Settle(c, response) ==
    /\ Mounted
    /\ c \in DOMAIN pending
    /\ pending' = [d \in DOMAIN pending \ {c} |-> pending[d]]
    /\ LET outcome == Outcomes[response]
           trigger == [transcript |-> pending[c].transcript,
                       shell |-> pending[c].shell,
                       inFlight |-> pending[c].inFlight]
       IN  /\ SetShell(IF outcome.threw
                       THEN OnFailure(c, outcome.thrown)
                       ELSE OnSuccess(c, outcome.value))
           /\ last' = [Ran("settle", c) EXCEPT
                         !.response = response,
                         !.ok = ~outcome.threw,
                         !.data = outcome.value,
                         !.trigger = trigger]
           /\ done' = [latest |-> Completion(c, ~outcome.threw, outcome.value, trigger),
                       previous |-> [done.latest EXCEPT !.transcript = <<>>]]
    /\ mermaid' = EffectsAfter(Shell, Shell')
    /\ UNCHANGED <<transcript, issued>>

\* The mermaid.run of Mermaid element d settles: the chart is drawn, or
\* mermaid throws and the catch block runs.
MermaidSettles(d, drawn) ==
    /\ Mounted
    /\ mermaid[d] = "running"
    /\ SetShell(IF drawn THEN Shell ELSE OnRenderError)
    /\ mermaid' = [EffectsAfter(Shell, Shell') EXCEPT
                     ![d] = IF @ = "running"
                            THEN IF drawn THEN "drawn" ELSE "caught"
                            ELSE @]
    /\ last' = Ran("mermaid", 0)
    /\ UNCHANGED <<transcript, issued, pending, done>>

\* The program as wired: handleAnalyze is reached through the button only.
Next ==
    \/ \E t \in Transcripts : SetTranscript(t)
    \/ LoadSample
    \/ ClickAnalyze
    \/ \E c \in DOMAIN pending, response \in Responses : Settle(c, response)
    \/ \E d \in Diagrams, drawn \in BOOLEAN : MermaidSettles(d, drawn)

Spec == Init /\ [][Next]_vars

\* The program as wired, every generateContent call settling: the promise
\* handleAnalyze awaits is resolved or rejected in the end.
SpecFair ==
    /\ Init /\ [][Next]_vars
    /\ \A c \in 1..MaxCalls :
          WF_vars(\E response \in Responses : Settle(c, response))

\* handleAnalyze called directly as well, also while a call is in flight. The
\* diagrams stay as the effects left them: no mermaid.run settles.
NextDirect ==
    \/ \E t \in Transcripts : SetTranscript(t)
    \/ LoadSample
    \/ ClickAnalyze
    \/ InvokeAnalyze
    \/ \E c \in DOMAIN pending, response \in Responses : Settle(c, response)

SpecDirect == Init /\ [][NextDirect]_vars

---------------------------------------------------------------------------
(* Properties of the shell. *)

\* Every character of t is white space (the empty text included).
OnlyWhiteSpace(t) == \A i \in DOMAIN t : t[i] \in WhiteSpace

\* C1: handleAnalyze run on an empty or whitespace-only transcript makes no
\* outbound call and leaves isAnalyzing, result and error as they were; every
\* transcript of a call in flight has a character that is not white space.
C1_BlankAnalyzeIsNoOp ==
    /\ (last.op = "handleAnalyze" /\ OnlyWhiteSpace(transcript)) =>
          (issued = last.sent /\ Shell = last.pre)
    /\ \A c \in DOMAIN pending : ~OnlyWhiteSpace(pending[c].transcript)

\* handleAnalyze has just run on a whitespace-only transcript, with a result
\* stored and a call in flight.
C1_Witness ==
    /\ last.op = "handleAnalyze"
    /\ transcript = <<"\n", "\t", " ">>
    /\ result # JNull
    /\ pending # <<>>

\* C2: when the call rejects, the handler ends with isAnalyzing false, error a
\* non-empty string, and result what it was when the action was triggered.
C2_RejectKeepsResult ==
    (last.op = "settle" /\ last.response.settled = "reject") =>
        /\ isAnalyzing = FALSE
        /\ error.kind = "string" /\ error.str # ""
        /\ result = last.trigger.shell.result
        /\ result = last.pre.result

\* A call has just rejected while a strategy was stored.
C2_Witness ==
    /\ last.op = "settle"
    /\ last.response.settled = "reject"
    /\ result = StrategyA

\* C3, as claimed: result and error are never both non-null.
C3_MutuallyExclusive == result = JNull \/ error = JNull

\* C3, amended: result and error are both non-null only when no call is in
\* flight and the call that settled last failed.
C3_BothOnlyAfterFailure ==
    (result # JNull /\ error # JNull) =>
        /\ isAnalyzing = FALSE
        /\ done.latest.call # 0
        /\ done.latest.ok = FALSE

\* A strategy and the error message are stored together.
C3_Witness == result = StrategyA /\ error # JNull

\* C4: right after a call returns, result is what it returned, error is null
\* and isAnalyzing is false, whatever settled before.
C4_SuccessStoresData ==
    (last.op = "settle" /\ last.ok) =>
        /\ result = last.data
        /\ error = JNull
        /\ isAnalyzing = FALSE

\* A call has just returned strategy B, the call before it having failed.
C4_Witness ==
    /\ last.op = "settle" /\ last.ok
    /\ last.data = StrategyB
    /\ done.previous.call # 0 /\ done.previous.ok = FALSE

\* C5: with handleAnalyze reached through the button only, at most one call
\* is in flight.
C5_SingleFlight == Cardinality(DOMAIN pending) <= 1

\* The second call is in flight, the first having settled.
C5_Witness == DOMAIN pending = {2} /\ done.latest.call = 1

\* C6, as claimed: a call that returns after a newer call was issued does not
\* change result.
C6_OnlyNewestApplied ==
    (last.op = "settle" /\ last.ok /\ last.call < issued) =>
        result = last.pre.result

\* C6, amended: a call that returns after a newer call was issued has its data
\* stored in result all the same.
C6_StaleResultIsStored ==
    (last.op = "settle" /\ last.ok /\ last.call < issued) =>
        result = last.data

\* Call 1 has just returned strategy A after call 2 was issued, and strategy A
\* has replaced what was stored.
C6_Witness ==
    /\ last.op = "settle" /\ last.ok
    /\ last.call = 1 /\ issued = 2
    /\ last.data = StrategyA
    /\ last.pre.result # StrategyA
    /\ result = StrategyA

\* Calls a and b were in flight together.
Overlapped(a, b) == a.call \in b.inFlight \/ b.call \in a.inFlight

\* C7: when the two calls that settled last were in flight together and both
\* returned, result is the data of the one that settled last.
C7_LastCompletionWins ==
    (done.latest.ok /\ done.previous.ok /\ Overlapped(done.latest, done.previous)) =>
        result = done.latest.data

\* Call 2 returned strategy B, then call 1, issued before it, returned
\* strategy A, which is what is stored.
C7_Witness ==
    /\ done.previous.call = 2 /\ done.previous.ok /\ done.previous.data = StrategyB
    /\ done.latest.call = 1 /\ done.latest.ok /\ done.latest.data = StrategyA
    /\ Overlapped(done.latest, done.previous)
    /\ result = StrategyA

\* C8: handleAnalyze on a transcript that is not blank makes exactly one
\* outbound call, also when the transcript is that of an earlier call; no
\* other handler, and no settling call, makes any.
C8_OneCallPerAction ==
    /\ (last.op = "handleAnalyze" /\ ~OnlyWhiteSpace(transcript)) =>
          /\ issued = last.sent + 1
          /\ issued \in DOMAIN pending
          /\ pending[issued].request = GenerateContentRequest(transcript)
    /\ last.op # "handleAnalyze" => issued = last.sent

\* handleAnalyze has just run again on the transcript of call 1, whose result
\* is stored, and call 2 is in flight.
C8_Witness ==
    /\ last.op = "handleAnalyze"
    /\ done.latest.call = 1 /\ done.latest.ok
    /\ done.latest.transcript = transcript
    /\ result = done.latest.data /\ result = StrategyA
    /\ DOMAIN pending = {2}

RECURSIVE Conforms(_, _)

\* Value v has the type of the schema and, at every level, each field the
\* schema marks required.
Conforms(schema, v) ==
    CASE schema.type = "STRING" -> v.kind = "string"
      [] schema.type = "NUMBER" -> v.kind = "number"
      [] schema.type = "ARRAY" ->
            /\ v.kind = "array"
            /\ \A i \in DOMAIN v.items : Conforms(schema.items, v.items[i])
      [] schema.type = "OBJECT" ->
            /\ v.kind = "object"
            /\ \A k \in Range(schema.required) :
                  /\ k \in DOMAIN v.members
                  /\ Conforms(schema.properties[k], v.members[k])

\* C9, as claimed: whatever analyzeTranscript returns has every field
\* ARCHITECT_SCHEMA marks required.
C9_ReturnsFullyPopulated ==
    (last.op = "settle" /\ last.ok) => Conforms(ARCHITECT_SCHEMA, last.data)

\* C10: every failed call (the call rejected, or its text was not JSON) leaves
\* the one fixed message in error and isAnalyzing false, and makes no call.
C10_FailureIsGeneric ==
    (last.op = "settle" /\ ~last.ok) =>
        /\ error = JStr(ERROR_MESSAGE)
        /\ isAnalyzing = FALSE
        /\ issued = last.sent

\* A call has just resolved with a text that JSON.parse rejects, another call
\* having been rejected before it.
C10_Witness ==
    /\ last.op = "settle" /\ ~last.ok
    /\ last.response.settled = "resolve"
    /\ done.previous.call # 0 /\ ~done.previous.ok

\* The model's own texts: a strategy survives the round trip through its JSON
\* text, and follows the schema.
RoundTrip ==
    /\ JSONParse(Stringify(StrategyA)).value = StrategyA
    /\ ~JSONParse(Stringify(StrategyB)).threw
    /\ Conforms(ARCHITECT_SCHEMA, StrategyA)
    /\ Conforms(ARCHITECT_SCHEMA, StrategyB)
    /\ StrategyA # StrategyB

\* C11, as claimed: a call that failed for want of the credential leaves an
\* error that differs from the one a transport or parse failure leaves.
C11_CredentialErrorDistinct ==
    (last.op = "settle" /\ last.response = Rejected("credential")) =>
        error # JStr(ERROR_MESSAGE)

---------------------------------------------------------------------------
(* Properties of the Report Renderer. *)

\* C12, as claimed: whatever value handleAnalyze has stored in result, App
\* renders without throwing.
C12_RenderNeverThrows == ~Threw(Render(Shell))

---------------------------------------------------------------------------
(* Properties of the Analysis Client's request. *)

\* C13: the prompt of every call in flight is the fixed prefix, then the
\* transcript as it stood when the action was triggered, character for
\* character, then the fixed suffix; the call just triggered took the
\* transcript now in state.
C13_PromptEmbedsTranscript ==
    /\ \A c \in DOMAIN pending :
          LET text == pending[c].request.text
              t == pending[c].transcript
              p == Len(PROMPT_PREFIX)
          IN  /\ Len(text) = p + Len(t) + Len(PROMPT_SUFFIX)
              /\ SubSeq(text, 1, p) = PROMPT_PREFIX
              /\ SubSeq(text, p + 1, p + Len(t)) = t
              /\ SubSeq(text, p + Len(t) + 1, Len(text)) = PROMPT_SUFFIX
    /\ (last.op = "handleAnalyze" /\ issued > last.sent) =>
          pending[issued].transcript = transcript

\* A call is in flight whose transcript begins and ends with white space, and
\* the textarea has been edited since.
C13_Witness ==
    \E c \in DOMAIN pending :
        /\ pending[c].transcript = <<" ", "b", " ">>
        /\ transcript = <<"a">>


\* The confidence displays of the page, in order.
ConfidenceShown == SelectSeq(Render(Shell), LAMBDA n : n.slot = "confidence")

\* C14: the report shows one confidence per recommendation, the score times 100
\* as a whole number followed by %, whatever the range: 0.83 as 83%, 1.4 as
\* 140% (and 0.835 as 84%), none of them throwing.
C14_ConfidenceAsPercent ==
    (View(Shell) = "report" /\ result \in {StrategyA, StrategyB}) =>
        LET recs == result.members.top_recommendations.items
        IN  /\ Len(ConfidenceShown) = Len(recs)
            /\ \A i \in DOMAIN recs :
                  LET score == recs[i].members.confidence_score.num
                      shown == ConfidenceShown[i]
                  IN  /\ shown.kind = "text"
                      /\ score = 830 => shown.str = "83%"
                      /\ score = 1400 => shown.str = "140%"
                      /\ score = 835 => shown.str = "84%"
                      /\ score \in {830, 1400, 835}

\* The report shows a recommendation scored 1.4, as 140%.
C14_Witness ==
    /\ View(Shell) = "report"
    /\ result = StrategyB
    /\ ConfidenceShown[1].str = "140%"
    /\ result.members.top_recommendations.items[1].members.confidence_score = JNum(1400)


RECURSIVE ObjectLevels(_)

\* The object levels of a schema: itself if it is one, and those below it.
ObjectLevels(schema) ==
    CASE schema.type = "OBJECT" ->
            {schema} \cup UNION {ObjectLevels(schema.properties[k]) :
                                   k \in DOMAIN schema.properties}
      [] schema.type = "ARRAY" -> ObjectLevels(schema.items)
      [] OTHER -> {}

\* C15: in the schema every call in flight carries, each of the eight object
\* levels (the top level, client_snapshot, top_recommendations items,
\* matched_use_cases items, diagrams, recommended_pilot, implementation_phases
\* items, next_steps) lists as required exactly the properties it declares.
C15_EveryFieldRequired ==
    \A c \in DOMAIN pending :
        LET levels == ObjectLevels(pending[c].request.responseSchema)
        IN  /\ Cardinality(levels) = 8
            /\ \A level \in levels :
                  Range(level.required) = DOMAIN level.properties

\* A call is in flight, its schema declaring validation_questions under
\* next_steps.
C15_Witness ==
    \E c \in DOMAIN pending :
        "validation_questions" \in
            DOMAIN pending[c].request.responseSchema.properties.next_steps.properties


RECURSIVE RequiredShape(_)

\* The nesting of a schema's required fields: each a scalar, a sequence or an
\* object, with what the sequence holds and what the object requires.
RequiredShape(schema) ==
    CASE schema.type = "OBJECT" ->
            [card |-> "object",
             fields |-> [k \in Range(schema.required) |->
                           RequiredShape(schema.properties[k])]]
      [] schema.type = "ARRAY" ->
            [card |-> "sequence", of |-> RequiredShape(schema.items)]
      [] OTHER -> [card |-> "scalar"]

RECURSIVE TypeShape(_)

\* The nesting of a type's members, in the same terms.
TypeShape(type) ==
    CASE type.type = "object" ->
            [card |-> "object",
             fields |-> [k \in DOMAIN type.members |-> TypeShape(type.members[k])]]
      [] type.type = "array" -> [card |-> "sequence", of |-> TypeShape(type.of)]
      [] OTHER -> [card |-> "scalar"]

\* C16: the required fields of the schema every call in flight carries and the
\* members of AnalysisResult are the same, path by path, and each is a scalar,
\* a sequence of strings, an object or a sequence of objects in both.
C16_SchemaMatchesType ==
    \A c \in DOMAIN pending :
        RequiredShape(pending[c].request.responseSchema) = TypeShape(AnalysisResult)

\* A call is in flight whose schema requires cost_breakdown of a
\* recommendation, a sequence of strings in the type.
C16_Witness ==
    \E c \in DOMAIN pending :
        /\ "cost_breakdown" \in Range(pending[c].request.responseSchema.properties
                                      .top_recommendations.items.required)
        /\ AnalysisResult.members.top_recommendations.of.members.cost_breakdown
              = TArray(TString)


\* C17: a step that leaves result, isAnalyzing and error as they were (an
\* edit of the transcript, which renders App again) leaves the page as it was,
\* the diagrams included: no effect of Mermaid runs again. And what a diagram's
\* effect does when it ends changes none of transcript, isAnalyzing, result and
\* error.
C17_RenderIsIdempotent ==
    [][/\ (Shell' = Shell /\ last'.op \in {"setTranscript", "loadSample"}) =>
            (Render(Shell') = Render(Shell) /\ mermaid' = mermaid)
       /\ last'.op = "mermaid" =>
            (Shell' = Shell /\ transcript' = transcript)]_vars

\* The transcript has just been edited under a report whose diagram mermaid
\* has drawn.
C17_Witness ==
    /\ last.op = "setTranscript"
    /\ View(Shell) = "report"
    /\ mermaid["tech_architecture_diagram"] = "drawn"
    /\ mermaid["use_case_diagram"] = "caught"


\* C18: when a mermaid.run has ended, thrown or not, result, error and
\* isAnalyzing are as they were and the report is on the page, rendered
\* without a throw; so it is wherever some diagram's failure has been caught.
\* A Mermaid element given the empty chart never has mermaid run.
C18_DiagramFailureContained ==
    /\ last.op = "mermaid" =>
          (Shell = last.pre /\ View(Shell) = "report" /\ ~Threw(Render(Shell)))
    /\ \A d \in Diagrams :
          /\ mermaid[d] = "caught" =>
                (View(Shell) = "report" /\ ~Threw(Render(Shell)))
          /\ (Charts(Shell)[d].mounted /\ Charts(Shell)[d].chart = "") =>
                mermaid[d] = "skipped"

\* mermaid has just thrown on the architecture diagram of a report whose
\* use-case diagram is empty.
C18_Witness ==
    /\ last.op = "mermaid"
    /\ result = StrategyB
    /\ mermaid["tech_architecture_diagram"] = "caught"
    /\ mermaid["use_case_diagram"] = "skipped"
    /\ Charts(Shell)["use_case_diagram"] = [mounted |-> TRUE, chart |-> ""]

---------------------------------------------------------------------------
(* Progress of the shell. *)

\* C19: once every call settles, isAnalyzing, whenever true, is false again
\* later, whether the call returns or throws; and only the step that settles a
\* call takes it from true to false.
C19_AnalyzingEnds ==
    /\ isAnalyzing ~> ~isAnalyzing
    /\ [][(isAnalyzing /\ ~isAnalyzing') => last'.op = "settle"]_vars

\* A call has just thrown, and the flag it had set is cleared.
C19_Witness ==
    /\ last.op = "settle" /\ ~last.ok
    /\ last.pre.isAnalyzing
    /\ ~isAnalyzing
    /\ pending = <<>>


\* C20, as claimed: isAnalyzing is true exactly when some call is in flight.
C20_AnalyzingIffInFlight == isAnalyzing <=> DOMAIN pending # {}

\* C20, amended: while isAnalyzing is true some call is in flight; a call is in
\* flight with isAnalyzing false only if it overlapped the call that settled
\* last, which cleared the flag for both.
C20_AnalyzingOnlyInFlight ==
    /\ isAnalyzing => DOMAIN pending # {}
    /\ \A c \in DOMAIN pending :
          ~isAnalyzing =>
              Overlapped(done.latest, [call |-> c, inFlight |-> pending[c].inFlight])

\* The first of two overlapping calls has settled: the second is in flight and
\* isAnalyzing is false.
C20_Witness ==
    /\ DOMAIN pending = {2}
    /\ pending[2].inFlight = {1}
    /\ done.latest.call = 1
    /\ ~isAnalyzing

---------------------------------------------------------------------------
(* Properties of the shell's state over time. *)

\* An edit of the transcript or a load of the sample has left isAnalyzing,
\* result and error as they were, and has made no call.
EditsChangeTranscriptOnly ==
    last.op \in {"setTranscript", "loadSample"} =>
        (Shell = last.pre /\ issued = last.sent)

\* C21, as claimed: editing the transcript and loading the sample change the
\* transcript only, make no call and clear no error, and are possible in
\* every state.
C21_EditsAlwaysPossible ==
    /\ EditsChangeTranscriptOnly
    /\ \A t \in Transcripts : ENABLED SetTranscript(t)
    /\ ENABLED LoadSample

\* The same while App is on the page, which it is with a call in flight and
\* after a failure.
C21_EditsPossibleWhileMounted ==
    /\ EditsChangeTranscriptOnly
    /\ (isAnalyzing \/ error # JNull) => Mounted
    /\ Mounted => /\ \A t \in Transcripts : ENABLED SetTranscript(t)
                  /\ ENABLED LoadSample


\* C22: an edit of the transcript leaves every call in flight with the request
\* and the transcript it was triggered with; and when a call returns, result
\* becomes its data, the request it had sent embedding the transcript of the
\* moment it was triggered, whatever the textarea holds by then.
C22_AnalyzesSubmittedTranscript ==
    [][/\ last'.op \in {"setTranscript", "loadSample"} => pending' = pending
       /\ (last'.op = "settle" /\ last'.ok) =>
             \E c \in DOMAIN pending \ DOMAIN pending' :
                 /\ result' = last'.data
                 /\ last'.call = c
                 /\ last'.trigger.transcript = pending[c].transcript
                 /\ pending[c].request.text =
                       PROMPT_PREFIX \o last'.trigger.transcript \o PROMPT_SUFFIX]_vars

\* A call triggered on the transcript "a" has just returned, the textarea
\* holding the sample by then.
C22_Witness ==
    /\ last.op = "settle" /\ last.ok
    /\ last.trigger.transcript = <<"a">>
    /\ transcript = SAMPLE_TRANSCRIPT
    /\ result = StrategyA


\* C23: with handleAnalyze reached through the button only, error is null
\* wherever isAnalyzing is true: a start has cleared it by the time its call
\* is in flight, and where an error is shown the call that settled last
\* failed.
C23_NoErrorWhileAnalyzing ==
    /\ isAnalyzing => error = JNull
    /\ (last.op = "handleAnalyze" /\ issued > last.sent) =>
          (error = JNull /\ isAnalyzing)
    /\ error # JNull => (done.latest.call # 0 /\ ~done.latest.ok)

\* An analysis has just been started over a displayed error.
C23_Witness ==
    /\ last.op = "handleAnalyze" /\ issued > last.sent
    /\ last.pre.error = JStr(ERROR_MESSAGE)
    /\ isAnalyzing
    /\ error = JNull


\* C24, as claimed: a call that returns leaves result non-null, a non-null
\* result is never followed by a null one, and result changes only when a call
\* returns, to that call's data.
C24_ResultNeverReset ==
    [][/\ (last'.op = "settle" /\ last'.ok) => result' # JNull
       /\ result # JNull => result' # JNull
       /\ result' # result =>
             (last'.op = "settle" /\ last'.ok /\ result' = last'.data)]_vars


C26_EmptyTextStoresEmptyObject ==
    (last.op = "settle" /\ last.response \in {Resolved(<<>>), ResolvedNoText}) =>
        /\ last.ok
        /\ last.data = JObj(<<>>)
        /\ result = last.data /\ DOMAIN result.members = {}
        /\ error = JNull
        /\ ~isAnalyzing
        /\ Output(Shell) = Report(JObj(<<>>))
        /\ Output(Shell) \notin {<<Node("output", "placeholder", "Ready for Analysis")>>,
                                 <<Node("output", "skeleton", "")>>}

\* A call has just resolved without a text, over a displayed strategy.
C26_Witness ==
    /\ last.op = "settle"
    /\ last.response = ResolvedNoText
    /\ last.pre.result = StrategyB
    /\ result = EmptyObject


\* The layers the page has a dedicated icon for.
DedicatedLayers ==
    {"Foundation", "Identity", "Network", "Security", "Storage", "Compute", "AI"}

\* The icons of the displayed report, one per recommendation card.
IconsShown == SelectSeq(Output(Shell), LAMBDA n : n.slot = "icon")

\* The recommendations of the displayed report.
RecommendationsShown ==
    IF View(Shell) = "report" /\ result \in {StrategyA, StrategyB, StrategyC}
    THEN result.members.top_recommendations.items
    ELSE <<>>

\* C27: every recommendation of the displayed report shows the dedicated icon
\* of its layer when the layer is one of the seven and the generic icon for
\* every other string, and no icon makes rendering fail.
C27_IconForEveryLayer ==
    /\ DOMAIN LAYER_ICONS = DedicatedLayers
    /\ \A i \in DOMAIN RecommendationsShown :
          LET layer == RecommendationsShown[i].members.architecture_layer.str
          IN  IconsShown[i] =
                Node("icon", "icon",
                     IF layer \in DedicatedLayers
                     THEN LAYER_ICONS[layer] ELSE "ChevronRight")

\* C27, for the layers that name nothing LAYER_ICONS inherits: the dedicated
\* icon exactly for the seven, the generic one otherwise; a layer that names
\* an inherited member shows no icon at all, or stops the rendering.
C27_IconUnlessInherited ==
    /\ DOMAIN LAYER_ICONS = DedicatedLayers
    /\ Len(IconsShown) = Len(RecommendationsShown)
    /\ \A i \in DOMAIN RecommendationsShown :
          LET layer == RecommendationsShown[i].members.architecture_layer.str
          IN  /\ layer \in DedicatedLayers =>
                    IconsShown[i] = Node("icon", "icon", LAYER_ICONS[layer])
              /\ layer \notin DedicatedLayers \cup DOMAIN ObjectPrototype =>
                    IconsShown[i] = Node("icon", "icon", "ChevronRight")
              /\ layer \in DOMAIN ObjectPrototype =>
                    IconsShown[i].kind \in {"none", "thrown"}
              /\ layer = "__proto__" => RenderThrew(Shell)

\* The report shows Shield for Security, the generic icon for "B" and for
\* "security", and nothing for "constructor".
C27_Witness ==
    /\ result = StrategyB
    /\ View(Shell) = "report"
    /\ IconsShown = <<Node("icon", "icon", "ChevronRight"),
                      Node("icon", "icon", "Shield"),
                      Node("icon", "icon", "ChevronRight"),
                      Node("icon", "none", "")>>

\* The recommendation in the layer "__proto__" has stopped the rendering.
C27_ProtoWitness ==
    /\ result = StrategyC
    /\ View(Shell) = "report"
    /\ IconsShown = <<Node("icon", "thrown", "")>>
    /\ ~Mounted


\* The use cases of the displayed report.
UseCasesShown ==
    IF View(Shell) = "report" /\ result \in {StrategyA, StrategyB, StrategyC}
    THEN result.members.matched_use_cases.items
    ELSE <<>>

\* The format tags and the labels of problem_or_task in the displayed report,
\* one of each per use-case card.
FormatsShown == SelectSeq(Output(Shell), LAMBDA n : n.slot = "format")

TaskLabelsShown == SelectSeq(Output(Shell), LAMBDA n : n.slot = "task_label")

\* C28: a strategy is stored with the format strings the response gave, and
\* every use-case card of the displayed report shows its format as given and
\* labels problem_or_task Task exactly when the format is the string STAR,
\* Problem for every other string.
C28_FormatVerbatimAndLabel ==
    /\ (last.op = "settle" /\ last.response = Resolved(Stringify(StrategyB))) =>
          (last.ok /\ result = StrategyB)
    /\ Len(FormatsShown) = Len(UseCasesShown)
    /\ Len(TaskLabelsShown) = Len(UseCasesShown)
    /\ \A i \in DOMAIN UseCasesShown :
          LET format == UseCasesShown[i].members.format
          IN  /\ format.kind = "string"
              /\ FormatsShown[i] = Node("format", "text", format.str)
              /\ TaskLabelsShown[i].kind = "text"
              /\ TaskLabelsShown[i].str \in {"Task", "Problem"}
              /\ TaskLabelsShown[i].str = "Task" <=> format.str = "STAR"

\* The report shows use cases in the formats STAR, SPAR, star and the empty
\* string, the first labelled Task and the others Problem.
C28_Witness ==
    /\ View(Shell) = "report"
    /\ result = StrategyB
    /\ [i \in DOMAIN FormatsShown |-> FormatsShown[i].str] = <<"STAR", "SPAR", "star", "">>
    /\ [i \in DOMAIN TaskLabelsShown |-> TaskLabelsShown[i].str] =
          <<"Task", "Problem", "Problem", "Problem">>

\* The phases of the displayed report.
PhasesShown ==
    IF View(Shell) = "report" /\ result \in {StrategyA, StrategyB, StrategyC}
    THEN result.members.implementation_phases.items
    ELSE <<>>

\* The cards of the Implementation Roadmap as displayed.
PhaseCardsShown ==
    SelectSeq(Output(Shell),
              LAMBDA n : n.slot \in {"phase_label", "phase_name", "focus",
                                     "expected_outcome"})

\* C29: the roadmap of the displayed report is one card per phase, in the
\* order of implementation_phases, the card at position k labelled Phase k
\* and showing the name, focus and outcome of the k-th phase.
C29_PhasesInOrder ==
    PhaseCardsShown =
        Concat([k \in DOMAIN PhasesShown |->
                  <<Node("phase_label", "text", "Phase " \o ToString(k)),
                    Node("phase_name", "text", PhasesShown[k].members.phase_name.str),
                    Node("focus", "text", PhasesShown[k].members.focus.str),
                    Node("expected_outcome", "text",
                         PhasesShown[k].members.expected_outcome.str)>>])

\* The report shows the three phases B1, B2, B3 as Phase 1, Phase 2, Phase 3.
C29_Witness ==
    /\ View(Shell) = "report"
    /\ result = StrategyB
    /\ Len(PhasesShown) = 3
    /\ [i \in DOMAIN PhaseCardsShown |-> PhaseCardsShown[i].str] =
          <<"Phase 1", "B1", "B", "B", "Phase 2", "B2", "B", "B",
            "Phase 3", "B3", "B", "B">>

===========================================================================
